---- MODULE Spec2Model ----
(***************************************************************************)
(* The pad-allocation simulations of src/src/ring_sim.py (Ring) and        *)
(* src/src/two_pointer.py (TwoPointer): the delayed-delivery broadcast     *)
(* network, the parties' views, the move classification and the tick loop  *)
(* of run_scenario.  One behaviour is one call run_scenario(n, m, d, x);   *)
(* the draws of the random source (the active sample, every delay, every   *)
(* tie-break) are nondeterministic choices.                                *)
(***************************************************************************)
EXTENDS Integers, Sequences, FiniteSets, TLC

\* ------------------------------------------------------------- bounds
MaxN == 6          \* largest domain size n
MaxM == 3          \* largest party count m
MaxD == 2          \* largest gap / delay bound d
MaxClock == 20     \* ticks explored of the Ring loop, which has no cap of its own
WideN == 9         \* domain size of the wide TwoPointer configuration (SpecWide)
WideD == 3         \* gap / delay bound of the wide TwoPointer configuration
LatN == 7          \* largest domain size of the latency comparison (SpecLatency)
LatM == 2          \* largest party count of the latency comparison
LatD == 2          \* largest delay bound of the high-latency run
StaleN == 7        \* domain size of the reordering configurations (SpecStale)
StaleD == 3        \* largest delay bound of the reordering configurations
LiveN == 6         \* largest domain size of the termination runs (SpecLive)
LiveM == 2         \* largest party count of the termination runs
LiveD == 2         \* largest gap / delay bound of the termination runs
MaxFurther == 3    \* network ticks explored beyond the last tick a run can execute
ABMaxN == 8        \* largest pad count n of an AdaptiveBoundaryProtocol
ABMaxD == 2        \* largest gap constraint d of an AdaptiveBoundaryProtocol
ABMaxK == 2        \* largest borrow size k given to the constructor
MaxCalls == 6      \* send_message calls made by the caller
MaxMsgs == 9       \* send_message invocations explored, recursive retries included
ExtMaxK == 3       \* largest k of an extend_region call made by the caller
ExtCalls == 1      \* send_message calls after which the caller still calls extend_region

VARIABLES
    topo,      \* "ring" (ring_sim.run_scenario) or "two" (two_pointer.run_scenario)
    n, m, d,   \* the arguments of run_scenario
    active,    \* active_ids; silent_ids is its complement in 1..m
    ptr,       \* ptr[p]  = parties[p].my_index
    view,      \* view[p] = parties[p].view_of_others
    used,      \* used[p] = parties[p].pads_used
    burned,    \* the set burned
    queue,     \* network.queue, in scheduling order
    clock,     \* network.current_time (equal to iteration_count in TwoPointer)
    delivered, \* the list delivered of the latest network.tick
    pc,        \* position in run_scenario: "loop", "move" or "done" ("off": no run)
    results    \* the values earlier run_scenario calls of the same caller returned

\* AdaptiveBoundaryProtocol (src/src/adaptive_boundary.py): one protocol object.
VARIABLES
    abst,                 \* "new", "ready", "retry" (inside a borrow-and-retry),
                          \* "rejected" (ValueError), "raised" (RuntimeError); "off": no object
    karg,                 \* the argument k of the constructor: <<>> for None, else <<k>>
    abn, abd, abk,        \* self.n, self.d, self.k
    region_start,         \* region_start[p], p a party name
    region_end,           \* region_end[p]
    next_pad,             \* next_pad[p]
    borrowed_pads,        \* borrowed_pads[p]
    used_pads,            \* self.used_pads
    total_messages, successful_messages, failed_messages, borrow_events,
    sender,               \* the party of the send_message call in progress
    extcall,              \* history: <<party, k>> of the latest extend_region call
    calls                 \* history: the send_message calls made by the caller

simVars == <<topo, n, m, d, active, ptr, view, used, burned, queue, clock, delivered, pc, results>>
abVars == <<abst, karg, abn, abd, abk, region_start, region_end, next_pad, borrowed_pads, used_pads,
            total_messages, successful_messages, failed_messages, borrow_events, sender, extcall, calls>>
vars == <<simVars, abVars>>

Ids == 1..m
Silent == Ids \ active

\* ------------------------------------------------------------ parties
\* RingParty.__init__: my_index and view_of_others (own id included).
RingStart(p) == (p - 1) * (n \div m)
RingInitView(p) == [i \in Ids |-> (i - 1) * (n \div m)]

\* TwoPointerParty.__init__: direction, my_index, view_of_others (own id left out).
Direction(p) == IF p % 2 = 1 THEN 1 ELSE -1
TwoStart(p) == IF p % 2 = 1 THEN 0 ELSE n - 1
TwoInitView(p) == [i \in Ids \ {p} |-> IF i % 2 = 1 THEN 0 ELSE n - 1]

\* update_view: unconditional overwrite of (or insertion into) a view dictionary.
update_view(v, sender_id, index) ==
    [k \in DOMAIN v \cup {sender_id} |-> IF k = sender_id THEN index ELSE v[k]]

\* ------------------------------------------------------------ network
\* A queued message: (delivery_time, sender_id, new_index); the field at is
\* history only: the clock at which send_broadcast scheduled it.
Msg(t, s, i, at) == [t |-> t, s |-> s, i |-> i, at |-> at]

\* Mutant of send_broadcast: the message carries the index after the new one.
send_broadcast_ahead(sender_id, new_index, delay) ==
    Append(queue, Msg(clock + delay, sender_id, (new_index + 1) % n, clock))

\* send_broadcast with the delay drawn by random.randint(0, d_delay).
send_broadcast(sender_id, new_index, delay) ==
    Append(queue, Msg(clock + delay, sender_id, new_index, clock))

\* Mutants of IsDue: a strict comparison (one tick late), a comparison one tick early.
IsDue_strict(msg, now) == msg.t < now
IsDue_early(msg, now) == msg.t <= now + 1

\* The test of tick that partitions the queue: msg[0] <= self.current_time.
IsDue(msg, now) == msg.t <= now

\* Mutant of SelectDue: the due messages newest first.
RECURSIVE SelectDue_reversed(_, _)
SelectDue_reversed(q, now) ==
    IF q = <<>> THEN <<>>
    ELSE IF IsDue(Head(q), now) THEN SelectDue_reversed(Tail(q), now) \o <<Head(q)>>
         ELSE SelectDue_reversed(Tail(q), now)

\* The list delivered of tick: the due messages, in queue order.
RECURSIVE SelectDue(_, _)
SelectDue(q, now) ==
    IF q = <<>> THEN <<>>
    ELSE IF IsDue(Head(q), now) THEN <<Head(q)>> \o SelectDue(Tail(q), now)
         ELSE SelectDue(Tail(q), now)

\* Mutant of SelectLater: the delivered messages stay in the queue.
SelectLater_keep(q, now) == q

\* The list remaining of tick: the messages not yet due, in queue order.
RECURSIVE SelectLater(_, _)
SelectLater(q, now) ==
    IF q = <<>> THEN <<>>
    ELSE IF IsDue(Head(q), now) THEN SelectLater(Tail(q), now)
         ELSE <<Head(q)>> \o SelectLater(Tail(q), now)

\* Mutant of Receivers: the sender is not skipped.
Receivers_all(sender_id) == Ids

\* The receivers of one delivered message: every party but its sender.
Receivers(sender_id) == {p \in Ids : p # sender_id}

\* The inner loops of tick: each delivered message, in order, to its receivers.
RECURSIVE Deliver(_, _)
Deliver(v, msgs) ==
    IF msgs = <<>> THEN v
    ELSE Deliver([p \in Ids |->
                    IF p \in Receivers(Head(msgs).s)
                    THEN update_view(v[p], Head(msgs).s, Head(msgs).i)
                    ELSE v[p]],
                 Tail(msgs))

\* ------------------------------------------------------ move policies
NoOpponent == -1

\* The opposite-direction ids in p's view.
Opponents(p) == {q \in DOMAIN view[p] : Direction(q) # Direction(p)}

\* Distance from p's pointer to position pos in p's direction of travel.
TwoDistance(p, pos) ==
    IF Direction(p) = 1 THEN (pos - ptr[p]) % n ELSE (ptr[p] - pos) % n

\* Mutant of get_closest_opponent: without an opponent, the far end of the domain.
get_closest_opponent_edge(p) ==
    IF Opponents(p) = {} THEN (IF Direction(p) = 1 THEN n - 1 ELSE 0)
    ELSE LET best == CHOOSE q \in Opponents(p) :
                         \A r \in Opponents(p) :
                             TwoDistance(p, view[p][q]) <= TwoDistance(p, view[p][r])
         IN view[p][best]

\* get_closest_opponent: the viewed position at minimum distance, or None.
get_closest_opponent(p) ==
    IF Opponents(p) = {} THEN NoOpponent
    ELSE LET best == CHOOSE q \in Opponents(p) :
                         \A r \in Opponents(p) :
                             TwoDistance(p, view[p][q]) <= TwoDistance(p, view[p][r])
         IN view[p][best]

\* The gap test of get_move_status.
RingGap(p) == (view[p][(p % m) + 1] - ptr[p]) % n

\* Mutant of GapSafe: the borderline gap == d is admitted.
GapSafe_nonstrict(g) == g >= d

GapSafe(g) == g > d

\* Mutant of NextIdx: every party steps forward.
NextIdx_forward(p) == (ptr[p] + 1) % n

\* The candidate next index.
NextIdx(p) == IF topo = "ring" THEN (ptr[p] + 1) % n ELSE (ptr[p] + Direction(p)) % n

\* Mutant of IsFresh: the ledger is not consulted.
IsFresh_always(idx) == TRUE

\* The fresh / burned test of get_move_status.
IsFresh(idx) == idx \notin burned

\* get_move_status: "data", "drift" or "none" (the None of the code).
get_move_status(p) ==
    IF topo = "ring"
    THEN IF GapSafe(RingGap(p))
         THEN IF IsFresh(NextIdx(p)) THEN "data" ELSE "drift"
         ELSE "none"
    ELSE IF get_closest_opponent(p) = NoOpponent THEN "none"
         ELSE IF ~GapSafe(TwoDistance(p, get_closest_opponent(p))) THEN "none"
         ELSE IF IsFresh(NextIdx(p)) THEN "data" ELSE "drift"

legal_senders == {p \in active : get_move_status(p) # "none"}
legal_jumpers == {p \in Silent : get_move_status(p) # "none"}

\* ------------------------------------------------------- run_scenario
MAX_UTILIZATION == n - (m * d)
max_iterations == n * 10

\* The while condition of the loop.
LoopCond ==
    /\ Cardinality(burned) < MAX_UTILIZATION
    /\ topo = "two" => clock < max_iterations

\* The value run_scenario returns.
Waste == n - Cardinality(burned)

\* The index a party is constructed at.
StartIndex(p) == IF topo = "ring" THEN RingStart(p) ELSE TwoStart(p)

\* The state run_scenario builds before its loop, for the arguments chosen:
\* the active sample, the parties, the initial burned set, the empty network.
Start ==
    /\ active \in SUBSET (1..m)
    /\ ptr = [p \in 1..m |-> IF topo = "ring" THEN RingStart(p) ELSE TwoStart(p)]
    /\ view = [p \in 1..m |-> IF topo = "ring" THEN RingInitView(p) ELSE TwoInitView(p)]
    /\ used = [p \in 1..m |-> 0]
    /\ burned = {ptr[p] : p \in active}
    /\ queue = <<>>
    /\ clock = 0
    /\ delivered = <<>>
    /\ pc = "loop"

\* No protocol object exists.
ABOff ==
    /\ abst = "off"
    /\ karg = <<>>
    /\ abn = 0 /\ abd = 0 /\ abk = 0
    /\ region_start = <<>> /\ region_end = <<>> /\ next_pad = <<>> /\ borrowed_pads = <<>>
    /\ used_pads = {}
    /\ total_messages = 0 /\ successful_messages = 0 /\ failed_messages = 0
    /\ borrow_events = 0
    /\ sender = "" /\ extcall = <<>> /\ calls = 0

Init ==
    /\ topo \in {"ring", "two"}
    /\ n \in 1..MaxN
    /\ m \in 1..MaxM
    /\ d \in 0..MaxD
    /\ Start
    /\ results = <<>>
    /\ ABOff

\* Mutant of Tick: the tick does not advance the clock (nor the iteration count).
Tick_frozen ==
    /\ pc = "loop"
    /\ LoopCond
    /\ topo = "ring" => clock < MaxClock
    /\ clock' = clock
    /\ delivered' = SelectDue(queue, clock)
    /\ queue' = SelectLater(queue, clock)
    /\ view' = Deliver(view, SelectDue(queue, clock))
    /\ pc' = "move"
    /\ UNCHANGED <<topo, n, m, d, active, ptr, used, burned>>
    /\ UNCHANGED <<results, abVars>>

\* The loop condition holds: network.tick(parties).
Tick ==
    /\ pc = "loop"
    /\ LoopCond
    /\ topo = "ring" => clock < MaxClock
    /\ clock' = clock + 1
    /\ delivered' = SelectDue(queue, clock + 1)
    /\ queue' = SelectLater(queue, clock + 1)
    /\ view' = Deliver(view, SelectDue(queue, clock + 1))
    /\ pc' = "move"
    /\ UNCHANGED <<topo, n, m, d, active, ptr, used, burned>>
    /\ UNCHANGED <<results, abVars>>

\* The loop condition fails: return n - len(burned).
Exit ==
    /\ pc = "loop"
    /\ ~LoopCond
    /\ pc' = "done"
    /\ UNCHANGED <<topo, n, m, d, active, ptr, view, used, burned, queue, clock, delivered>>
    /\ UNCHANGED <<results, abVars>>

\* Mutant of MoveActive: the DATA move burns without counting the pad.
MoveActive_uncounted ==
    /\ pc = "move"
    /\ legal_senders # {}
    /\ \E sid \in legal_senders, delay \in 0..d :
         /\ ptr' = [ptr EXCEPT ![sid] = NextIdx(sid)]
         /\ burned' = IF get_move_status(sid) = "data"
                      THEN burned \cup {NextIdx(sid)} ELSE burned
         /\ used' = used
         /\ queue' = send_broadcast(sid, NextIdx(sid), delay)
    /\ pc' = "loop"
    /\ UNCHANGED <<topo, n, m, d, active, view, clock, delivered>>
    /\ UNCHANGED <<results, abVars>>

\* Mutant of MoveActive: the DATA move counts the pad without burning it.
MoveActive_unburned ==
    /\ pc = "move"
    /\ legal_senders # {}
    /\ \E sid \in legal_senders, delay \in 0..d :
         /\ ptr' = [ptr EXCEPT ![sid] = NextIdx(sid)]
         /\ burned' = burned
         /\ used' = IF get_move_status(sid) = "data"
                    THEN [used EXCEPT ![sid] = @ + 1] ELSE used
         /\ queue' = send_broadcast(sid, NextIdx(sid), delay)
    /\ pc' = "loop"
    /\ UNCHANGED <<topo, n, m, d, active, view, clock, delivered>>
    /\ UNCHANGED <<results, abVars>>

\* Priority 1: one legal active sender moves, burning when its status is data.
MoveActive ==
    /\ pc = "move"
    /\ legal_senders # {}
    /\ \E sid \in legal_senders, delay \in 0..d :
         /\ ptr' = [ptr EXCEPT ![sid] = NextIdx(sid)]
         /\ burned' = IF get_move_status(sid) = "data"
                      THEN burned \cup {NextIdx(sid)} ELSE burned
         /\ used' = IF get_move_status(sid) = "data"
                    THEN [used EXCEPT ![sid] = @ + 1] ELSE used
         /\ queue' = send_broadcast(sid, NextIdx(sid), delay)
    /\ pc' = "loop"
    /\ UNCHANGED <<topo, n, m, d, active, view, clock, delivered>>
    /\ UNCHANGED <<results, abVars>>

\* Mutant of MoveSilent: a silent party burns like an active one.
MoveSilent_burning ==
    /\ pc = "move"
    /\ legal_senders = {}
    /\ legal_jumpers # {}
    /\ \E jid \in legal_jumpers, delay \in 0..d :
         /\ ptr' = [ptr EXCEPT ![jid] = NextIdx(jid)]
         /\ burned' = IF get_move_status(jid) = "data"
                      THEN burned \cup {NextIdx(jid)} ELSE burned
         /\ used' = IF get_move_status(jid) = "data"
                    THEN [used EXCEPT ![jid] = @ + 1] ELSE used
         /\ queue' = send_broadcast(jid, NextIdx(jid), delay)
    /\ pc' = "loop"
    /\ UNCHANGED <<topo, n, m, d, active, view, clock, delivered>>
    /\ UNCHANGED <<results, abVars>>

\* Mutant of MoveSilent: the silent branch is not an else of the active one.
MoveSilent_unordered ==
    /\ pc = "move"
    /\ legal_jumpers # {}
    /\ \E jid \in legal_jumpers, delay \in 0..d :
         /\ ptr' = [ptr EXCEPT ![jid] = NextIdx(jid)]
         /\ queue' = send_broadcast(jid, NextIdx(jid), delay)
    /\ pc' = "loop"
    /\ UNCHANGED <<topo, n, m, d, active, view, used, burned, clock, delivered>>
    /\ UNCHANGED <<results, abVars>>

\* Mutant of MoveSilent: the silent jump is not broadcast.
MoveSilent_quiet ==
    /\ pc = "move"
    /\ legal_senders = {}
    /\ legal_jumpers # {}
    /\ \E jid \in legal_jumpers, delay \in 0..d :
         /\ ptr' = [ptr EXCEPT ![jid] = NextIdx(jid)]
         /\ queue' = queue
    /\ pc' = "loop"
    /\ UNCHANGED <<topo, n, m, d, active, view, used, burned, clock, delivered>>
    /\ UNCHANGED <<results, abVars>>

\* Priority 2: no legal active sender; one legal silent party jumps, never burning.
MoveSilent ==
    /\ pc = "move"
    /\ legal_senders = {}
    /\ legal_jumpers # {}
    /\ \E jid \in legal_jumpers, delay \in 0..d :
         /\ ptr' = [ptr EXCEPT ![jid] = NextIdx(jid)]
         /\ queue' = send_broadcast(jid, NextIdx(jid), delay)
    /\ pc' = "loop"
    /\ UNCHANGED <<topo, n, m, d, active, view, used, burned, clock, delivered>>
    /\ UNCHANGED <<results, abVars>>

\* Nobody moved and broadcasts are pending: next iteration.
Idle ==
    /\ pc = "move"
    /\ legal_senders = {}
    /\ legal_jumpers = {}
    /\ queue # <<>>
    /\ pc' = "loop"
    /\ UNCHANGED <<topo, n, m, d, active, ptr, view, used, burned, queue, clock, delivered>>
    /\ UNCHANGED <<results, abVars>>

\* Mutant of Clinch: the break does not look at the pending queue.
Clinch_ignoring_queue ==
    /\ pc = "move"
    /\ legal_senders = {}
    /\ legal_jumpers = {}
    /\ pc' = "done"
    /\ UNCHANGED <<topo, n, m, d, active, ptr, view, used, burned, queue, clock, delivered>>
    /\ UNCHANGED <<results, abVars>>

\* Nobody moved and nothing is pending: break.
Clinch ==
    /\ pc = "move"
    /\ legal_senders = {}
    /\ legal_jumpers = {}
    /\ queue = <<>>
    /\ pc' = "done"
    /\ UNCHANGED <<topo, n, m, d, active, ptr, view, used, burned, queue, clock, delivered>>
    /\ UNCHANGED <<results, abVars>>

Next == Tick \/ Exit \/ MoveActive \/ MoveSilent \/ Idle \/ Clinch

Spec == Init /\ [][Next]_vars

\* One TwoPointer configuration wide enough for views to go stale by d moves.
InitWide ==
    /\ topo = "two"
    /\ n = WideN
    /\ m = 2
    /\ d = WideD
    /\ Start
    /\ results = <<>>
    /\ ABOff

SpecWide == InitWide /\ [][Next]_vars

\* Two parties on a domain wide enough for one party to move twice in a row,
\* with every delay bound up to StaleD.
InitStale ==
    /\ topo \in {"ring", "two"}
    /\ n = StaleN
    /\ m = 2
    /\ d \in 0..StaleD
    /\ Start
    /\ results = <<>>
    /\ ABOff

SpecStale == InitStale /\ [][Next]_vars

\* run_scenario is sequential code: a step that is possible is taken.
InitLive ==
    /\ topo \in {"ring", "two"}
    /\ n \in 1..LiveN
    /\ m \in 1..LiveM
    /\ d \in 0..LiveD
    /\ Start
    /\ results = <<>>
    /\ ABOff

SpecLive == InitLive /\ [][Next]_vars /\ WF_vars(Next)

\* test_latency_impact: a Ring run with delay bound d > 0, then a Ring run with
\* the same n, m and x and delay bound 0.
InitLatency ==
    /\ topo = "ring"
    /\ n \in 1..LatN
    /\ m \in 1..LatM
    /\ d \in 1..LatD
    /\ Start
    /\ results = <<>>
    /\ ABOff

\* The first run has returned: high_latency = run_scenario(n, m, d, x), and
\* run_scenario(n, m, 0, x) starts.
SecondRun ==
    /\ pc = "done"
    /\ results = <<>>
    /\ results' = <<Waste>>
    /\ d' = 0
    /\ active' \in {a \in SUBSET Ids : Cardinality(a) = Cardinality(active)}
    /\ ptr' = [p \in Ids |-> StartIndex(p)]
    /\ view' = [p \in Ids |-> IF topo = "ring" THEN RingInitView(p) ELSE TwoInitView(p)]
    /\ used' = [p \in Ids |-> 0]
    /\ burned' = {StartIndex(p) : p \in active'}
    /\ queue' = <<>>
    /\ clock' = 0
    /\ delivered' = <<>>
    /\ pc' = "loop"
    /\ UNCHANGED <<topo, n, m, abVars>>

NextLatency == Next \/ SecondRun

SpecLatency == InitLatency /\ [][NextLatency]_vars

\* ------------------------------------------- AdaptiveBoundaryProtocol
Parties == {"alice", "bob", "charlie"}

\* No simulation is running.
SimOff ==
    /\ topo = "none"
    /\ n = 0 /\ m = 0 /\ d = 0
    /\ active = {}
    /\ ptr = <<>> /\ view = <<>> /\ used = <<>>
    /\ burned = {}
    /\ queue = <<>>
    /\ clock = 0
    /\ delivered = <<>>
    /\ pc = "off"
    /\ results = <<>>

\* Before the constructor call.
InitAB ==
    /\ SimOff
    /\ abst = "new"
    /\ karg = <<>>
    /\ abn = 0 /\ abd = 0 /\ abk = 0
    /\ region_start = <<>> /\ region_end = <<>> /\ next_pad = <<>> /\ borrowed_pads = <<>>
    /\ used_pads = {}
    /\ total_messages = 0 /\ successful_messages = 0 /\ failed_messages = 0
    /\ borrow_events = 0
    /\ sender = "" /\ extcall = <<>> /\ calls = 0

\* Mutant of Accepted: the pad count is only required to be positive.
Accepted_lenient(nn, dd) == ~(nn < 1) /\ ~(dd < 1)

\* The two checks of __init__ pass.
Accepted(nn, dd) == ~(nn < 3) /\ ~(dd < 1)

\* The regions built by _init_alice, _init_bob and _init_charlie.
init_alice(nn, dd) == [region_start |-> 1, region_end |-> nn \div 3]
init_bob(nn, dd) == [region_start |-> (nn \div 3) + dd + 1, region_end |-> (2 * nn) \div 3]
init_charlie(nn, dd) == [region_start |-> (2 * nn) \div 3 + dd + 1, region_end |-> nn]
init_party(p, nn, dd) ==
    IF p = "alice" THEN init_alice(nn, dd)
    ELSE IF p = "bob" THEN init_bob(nn, dd)
    ELSE init_charlie(nn, dd)

\* __init__(n, d, k): self.n, self.d and self.k are assigned, then the checks
\* raise ValueError or the regions and the counters are built.
Construct ==
    /\ abst = "new"
    /\ \E nn \in 0..ABMaxN, dd \in 0..ABMaxD, ka \in {<<>>} \cup {<<kk>> : kk \in 0..ABMaxK} :
         /\ karg' = ka
         /\ abn' = nn
         /\ abd' = dd
         /\ abk' = IF ka # <<>> THEN ka[1] ELSE dd
         /\ IF Accepted(nn, dd)
            THEN /\ region_start' = [p \in Parties |-> init_party(p, nn, dd).region_start]
                 /\ region_end' = [p \in Parties |-> init_party(p, nn, dd).region_end]
                 /\ next_pad' = [p \in Parties |-> init_party(p, nn, dd).region_start]
                 /\ borrowed_pads' = [p \in Parties |-> 0]
                 /\ abst' = "ready"
            ELSE /\ abst' = "rejected"
                 /\ UNCHANGED <<region_start, region_end, next_pad, borrowed_pads>>
    /\ UNCHANGED <<used_pads, total_messages, successful_messages, failed_messages,
                   borrow_events, sender, extcall, calls, simVars>>

gap_constraint_satisfied(p, pad_idx) ==
    region_start[p] <= pad_idx /\ pad_idx <= region_end[p]

\* can_borrow: the first component of the pair it returns.
can_borrow(p) ==
    IF p = "alice" THEN region_end[p] + abd + abk < next_pad["bob"]
    ELSE IF p = "bob" THEN \/ region_end[p] + abd + abk < next_pad["alice"]
                           \/ region_end[p] + abd + abk < next_pad["charlie"]
    ELSE region_end[p] + abd + abk < next_pad["bob"]

\* Mutant of new_end: the new end is not capped at n.
new_end_uncapped(p, k) == region_end[p] + k

\* extend_region: the new end of the region.
new_end(p, k) == IF region_end[p] + k > abn THEN abn ELSE region_end[p] + k

\* One invocation of send_message for party p, up to its return, its raise or
\* its recursive call.
Frame(p) ==
    /\ total_messages < MaxMsgs
    /\ total_messages' = total_messages + 1
    /\ IF next_pad[p] <= region_end[p] /\ gap_constraint_satisfied(p, next_pad[p])
       THEN IF next_pad[p] \in used_pads
            THEN \* use_pad raises RuntimeError
                 /\ abst' = "raised"
                 /\ UNCHANGED <<region_end, next_pad, borrowed_pads, used_pads,
                                successful_messages, failed_messages, borrow_events, extcall>>
            ELSE /\ used_pads' = used_pads \cup {next_pad[p]}
                 /\ next_pad' = [next_pad EXCEPT ![p] = @ + 1]
                 /\ successful_messages' = successful_messages + 1
                 /\ abst' = "ready"
                 /\ UNCHANGED <<region_end, borrowed_pads, failed_messages, borrow_events,
                                extcall>>
       ELSE IF can_borrow(p)
            THEN \* extend_region(party, self.k), then the retry
                 /\ region_end' = [region_end EXCEPT ![p] = new_end(p, abk)]
                 /\ borrowed_pads' = [borrowed_pads EXCEPT ![p] = @ + (new_end(p, abk) - region_end'[p])]
                 /\ extcall' = <<p, abk>>
                 /\ borrow_events' = borrow_events + 1
                 /\ abst' = "retry"
                 /\ UNCHANGED <<next_pad, used_pads, successful_messages, failed_messages>>
            ELSE /\ failed_messages' = failed_messages + 1
                 /\ abst' = "ready"
                 /\ UNCHANGED <<region_end, next_pad, borrowed_pads, used_pads,
                                successful_messages, borrow_events, extcall>>
    /\ UNCHANGED <<karg, abn, abd, abk, region_start, simVars>>

\* The caller calls send_message(party_name, message).
send_message ==
    /\ abst = "ready"
    /\ calls < MaxCalls
    /\ \E p \in Parties :
         /\ sender' = p
         /\ Frame(p)
    /\ calls' = calls + 1

\* The recursive call of line 217: return self.send_message(party_name, message).
send_message_retry ==
    /\ abst = "retry"
    /\ Frame(sender)
    /\ UNCHANGED <<sender, calls>>

NextAB == Construct \/ send_message \/ send_message_retry

SpecAB == InitAB /\ [][NextAB]_vars

\* The protocol with the recursive call of line 217 always taken once reached:
\* a frame that has borrowed goes on to its retry.  The caller's own calls are
\* under no obligation.
SpecABLive == InitAB /\ [][NextAB]_vars /\ WF_vars(send_message_retry)

\* The caller calls extend_region(party, k) itself, as tests/test_borrowing.py does.
extend_region ==
    /\ abst = "ready"
    /\ calls <= ExtCalls
    /\ \E p \in Parties, k \in 0..ExtMaxK :
         /\ region_end' = [region_end EXCEPT ![p] = new_end(p, k)]
         /\ borrowed_pads' = [borrowed_pads EXCEPT ![p] = @ + (new_end(p, k) - region_end'[p])]
         /\ extcall' = <<p, k>>
    /\ UNCHANGED <<abst, karg, abn, abd, abk, region_start, next_pad, used_pads,
                   total_messages, successful_messages, failed_messages, borrow_events,
                   sender, calls, simVars>>

NextExtend == NextAB \/ extend_region

SpecExtend == InitAB /\ [][NextExtend]_vars

\* ------------------------------------------------------------- claims
Max(a, b) == IF a > b THEN a ELSE b
Range(q) == {q[k] : k \in 1..Len(q)}

\* A DATA move is the step that raises a used count; its target is the
\* mover's new pointer.
DataMoveOf(p) == used'[p] # used[p]

\* C1: no index enters burned twice.  Every step that executes a DATA move
\* (the mover's used count goes up by one) targets an index that is not in
\* burned immediately before the step, and burned grows by exactly that index.
C1_NoReuse ==
    [][\A p \in Ids : DataMoveOf(p) =>
          /\ used'[p] = used[p] + 1
          /\ ptr'[p] \notin burned
          /\ burned' = burned \cup {ptr'[p]}
          /\ Cardinality(burned') = Cardinality(burned) + 1]_vars

\* C1 witness: a DATA move has been executed and an active party is about to
\* move onto an index that is already burned (the case the ledger test decides).
C1_Witness ==
    /\ pc = "move"
    /\ \E q \in Ids : used[q] >= 1
    /\ \E p \in legal_senders : NextIdx(p) \in burned

\* C2 (as claimed): in TwoPointer with d >= 1 every forward (odd) party's true
\* pointer is strictly below every backward (even) party's true pointer.
C2_NoCollision ==
    (topo = "two" /\ d >= 1) =>
        \A f \in Ids, b \in Ids :
            (Direction(f) = 1 /\ Direction(b) = -1) => ptr[f] < ptr[b]

\* C3 (as claimed): for a valid configuration (d >= 1, 1 <= x <= m, n >= m*d)
\* the value returned satisfies m*d <= waste <= n.
ValidConfig ==
    /\ d >= 1
    /\ Cardinality(active) >= 1
    /\ Cardinality(active) <= m
    /\ n >= m * d

C3_WasteBounds ==
    (pc = "done" /\ ValidConfig) => (m * d <= Waste /\ Waste <= n)

\* The exits of the loop.
CapReached == topo = "two" /\ clock >= max_iterations
ThresholdReached == Cardinality(burned) >= MAX_UTILIZATION
IsClinch == legal_senders = {} /\ legal_jumpers = {} /\ queue = <<>>

\* C4 (as claimed): a run that stops without having reached an iteration cap
\* stops in a clinch: nobody eligible, nothing pending.
C4_ClinchOrCap == (pc = "done" /\ ~CapReached) => IsClinch

\* C4 (amended): a run that stops with neither the iteration cap reached nor
\* the burn threshold |burned| >= n - m*d reached stops in a clinch.
C4_ClinchOrCapOrThreshold ==
    (pc = "done" /\ ~CapReached /\ ~ThresholdReached) => IsClinch

\* C4 witness: the loop has stopped below the threshold and the cap, after at
\* least one party had moved and its broadcast had been delivered.
C4_Witness ==
    /\ pc = "done"
    /\ ~CapReached
    /\ ~ThresholdReached
    /\ \E p \in Ids : ptr[p] # (IF topo = "ring" THEN RingStart(p) ELSE TwoStart(p))

\* C5 (as claimed): every delivered broadcast, scheduled at clock T, is applied
\* at a tick whose clock is at most T + D, D = d the delay bound; and no pending
\* broadcast has outlived that deadline.
C5_DeliveredByTPlusD ==
    /\ \A msg \in Range(delivered) : clock <= msg.at + d
    /\ \A msg \in Range(queue) : clock <= msg.at + d

\* C5 (amended): a broadcast scheduled at clock T is applied at a tick whose
\* clock is at most T + D when D >= 1, and at the tick with clock T + 1 when
\* D = 0 (a broadcast is never applied by the tick in which it was scheduled);
\* no pending broadcast has outlived its deadline.
C5_DeliveredByDeadline ==
    /\ \A msg \in Range(delivered) : clock <= msg.at + Max(d, 1)
    /\ \A msg \in Range(queue) : clock <= msg.at + d

\* C5 witness: a broadcast drawn with the maximum delay D >= 1 has just been
\* delivered, at clock T + D.
C5_Witness ==
    /\ d >= 1
    /\ \E msg \in Range(delivered) : msg.t = msg.at + d /\ clock = msg.at + d

\* A view entry differs across the step.
ViewChanged(p, s) ==
    \/ s \in DOMAIN view'[p] /\ s \notin DOMAIN view[p]
    \/ s \in DOMAIN view[p] /\ s \in DOMAIN view'[p] /\ view'[p][s] # view[p][s]

\* No delivered message is ahead of the clock, and every change of a view entry
\* in a step is the application of a message delivered in that step.
NeverEarly ==
    /\ [](\A msg \in Range(delivered) : msg.t <= clock)
    /\ [][\A p \in Ids, s \in Ids : ViewChanged(p, s) =>
              \E k \in 1..Len(delivered') :
                  /\ delivered'[k].s = s
                  /\ delivered'[k].i = view'[p][s]
                  /\ delivered'[k].t <= clock'
                  /\ delivered'[k] \in Range(queue)
                  /\ delivered'[k] \notin Range(queue')]_vars

\* The clock moves only by one tick at a time, and only in a tick.
ClockByOne == [][clock' # clock => (clock' = clock + 1 /\ pc = "loop" /\ pc' = "move")]_vars

\* C6 (as claimed): never early, the clock grows by exactly 1 per tick, and a
\* broadcast scheduled at clock T with the maximum delay D stays pending while
\* clock < T + D and is applied at the tick with clock T + D.
C6_MaxDelayAtTPlusD ==
    /\ NeverEarly
    /\ ClockByOne
    /\ [](\A msg \in Range(delivered) : msg.t = msg.at + d => clock = msg.at + d)

\* C6 (amended): never early, the clock grows by exactly 1 per tick, and a
\* broadcast scheduled at clock T with delivery tick t is applied at the tick
\* with clock max(t, T + 1): with the maximum delay D that is T + D when
\* D >= 1 and T + 1 when D = 0; until then it stays pending.
C6_NoEarlyDelivery ==
    /\ NeverEarly
    /\ ClockByOne
    /\ [](\A msg \in Range(delivered) : clock = Max(msg.t, msg.at + 1))
    /\ [](\A msg \in Range(queue) : clock <= msg.t)

\* C6 witness: a broadcast with the maximum delay D >= 2 is still pending one
\* tick before its delivery tick, the receivers' views not yet showing it.
C6_Witness ==
    /\ d >= 2
    /\ pc = "move"
    /\ \E msg \in Range(queue) :
          /\ msg.t = msg.at + d
          /\ clock = msg.t - 1
          /\ \A p \in Ids \ {msg.s} : view[p][msg.s] # msg.i

\* C7: no self-delivery.  In Ring a party's view entry for its own id keeps its
\* initial value; in TwoPointer a party's view never gains an entry for its
\* own id.
C7_NoSelfDelivery ==
    \A p \in Ids :
        IF topo = "ring"
        THEN view[p][p] = RingStart(p)
        ELSE p \notin DOMAIN view[p]

\* C7 witness: a Ring party's broadcast of a new position has been delivered
\* (another party's view shows it) while the sender's own entry is unchanged.
C7_Witness ==
    /\ topo = "ring"
    /\ \E msg \in Range(delivered) :
          /\ msg.i # RingStart(msg.s)
          /\ \E p \in Ids \ {msg.s} : view[p][msg.s] = msg.i
          /\ view[msg.s][msg.s] = RingStart(msg.s)

\* The gap a party reads from its view: the circular distance in its direction
\* of travel to its neighbour's last-known position; -1 when it has no neighbour.
ViewGap(p) ==
    IF topo = "ring"
    THEN (view[p][(p % m) + 1] - ptr[p]) % n
    ELSE IF \E q \in DOMAIN view[p] : q % 2 # p % 2
         THEN LET ds == {IF p % 2 = 1 THEN (view[p][q] - ptr[p]) % n
                                      ELSE (ptr[p] - view[p][q]) % n :
                         q \in {r \in DOMAIN view[p] : r % 2 # p % 2}}
              IN CHOOSE g \in ds : \A h \in ds : g <= h
         ELSE -1

\* C8: strict gap admissibility.  A pointer changes in a step only if the
\* mover's view gap at selection is strictly greater than d.
C8_StrictGap ==
    [][\A p \in Ids : ptr'[p] # ptr[p] => (ViewGap(p) # -1 /\ ViewGap(p) > d)]_vars

\* C8 witness: at selection one party stands at gap == d >= 1 exactly (blocked)
\* while another has gap > d (it will move).
C8_Witness ==
    /\ pc = "move"
    /\ d >= 1
    /\ \E p \in Ids : ViewGap(p) = d
    /\ \E q \in Ids : ViewGap(q) > d

\* A silent party's pointer changes in the step.
SilentMoves == \E p \in Silent : ptr'[p] # ptr[p]

\* C9: silent parties never burn.  Every silent party's used count is 0 in
\* every state, and a step in which a silent party moves leaves burned (and
\* every used count) unchanged.
C9_SilentNeverBurn ==
    /\ [](\A p \in Silent : used[p] = 0)
    /\ [][SilentMoves => (burned' = burned /\ used' = used)]_vars

\* C9 witness: with active parties present but blocked, a silent party is
\* about to move onto a fresh index (its status is data).
C9_Witness ==
    /\ pc = "move"
    /\ active # {}
    /\ legal_senders = {}
    /\ \E p \in legal_jumpers : get_move_status(p) = "data"

\* Some active party is eligible on the current views.
ActiveEligible == \E p \in active : ViewGap(p) > d

\* C10: active-over-silent priority.  A silent party moves only in a step in
\* which every active party is blocked; when an active party is eligible the
\* party that moves is active.
C10_ActivePriority ==
    /\ [][\A p \in Ids : ptr'[p] # ptr[p] =>
             /\ p \in Silent => ~ActiveEligible
             /\ ActiveEligible => p \in active]_vars
    /\ [][(pc = "move" /\ ActiveEligible) =>
             (\E p \in active : ptr'[p] # ptr[p]) /\ ~SilentMoves]_vars

\* C10 witness: at selection an active and a silent party are both eligible.
C10_Witness ==
    /\ pc = "move"
    /\ legal_senders # {}
    /\ legal_jumpers # {}

\* The ledger: the pads counted by the parties, and the indices burned before
\* the first tick (the starting positions of the active parties).
RECURSIVE SumUsed(_)
SumUsed(S) ==
    IF S = {} THEN 0
    ELSE LET p == CHOOSE q \in S : TRUE IN used[p] + SumUsed(S \ {p})
InitialBurned == {StartIndex(p) : p \in active}

\* C11 (as claimed): |burned| equals the sum over all parties of their used
\* counts, every burned index being the target of an executed DATA move.
C11_BurnedIsDataMoves == Cardinality(burned) = SumUsed(Ids)

\* C11 (amended): burned starts as the starting positions of the active parties
\* and afterwards changes only in an executed DATA move, which adds its target;
\* so |burned| equals the number of initially burned indices plus the sum over
\* all parties of their used counts.
C11_LedgerConsistent ==
    /\ [](/\ InitialBurned \subseteq burned
          /\ Cardinality(burned) = Cardinality(InitialBurned) + SumUsed(Ids))
    /\ [][burned' # burned =>
            \E p \in active : DataMoveOf(p) /\ burned' = burned \cup {ptr'[p]}]_vars

\* C11 witness: a finished run in which active parties burned indices beyond
\* their starting positions and a silent party also moved.
C11_Witness ==
    /\ pc = "done"
    /\ SumUsed(Ids) >= 2
    /\ InitialBurned # {}
    /\ \E p \in Silent : ptr[p] # StartIndex(p)

\* C13 (as claimed): with the same n, m and x, the Ring run with delay bound 0
\* never returns more wasted pads than the run with a delay bound d > 0 did.
C13_ZeroLatencyNoWorse ==
    (pc = "done" /\ results # <<>>) => Waste <= results[1]

\* No broadcast sent by s is pending in the network.
NonePending(s) == \A msg \in Range(queue) : msg.s # s
Converged(s) == \A p \in Ids \ {s} : view[p][s] = ptr[s]

\* C14 (as claimed): whenever no broadcast sent by s is pending, every other
\* party's view of s equals s's current pointer.
C14_ViewConverges == \A s \in Ids : NonePending(s) => Converged(s)

\* C14 (amended): a view of s changes only in a tick, to the index of the last
\* broadcast of s that the tick delivered, whatever the order the broadcasts
\* were sent in; and with a delay bound of at most 2 this is the order they
\* were sent in, so that whenever no broadcast of s is pending every other
\* party's view of s equals s's current pointer.
C14_ViewIsLastDelivered ==
    /\ [](d <= 2 => \A s \in Ids : NonePending(s) => Converged(s))
    /\ [][\A p \in Ids : \A s \in DOMAIN view[p] :
            view'[p][s] # view[p][s] =>
              /\ p # s
              /\ \E k \in 1..Len(delivered') :
                   /\ delivered'[k].s = s
                   /\ delivered'[k].i = view'[p][s]
                   /\ \A j \in (k + 1)..Len(delivered') : delivered'[j].s # s]_vars

\* C14 witness: one tick has delivered two broadcasts of the same sender, the
\* older one first, nothing of that sender is pending, and the delay bound is 2.
C14_Witness ==
    /\ d = 2
    /\ pc = "move"
    /\ \E j \in 1..Len(delivered), k \in 1..Len(delivered) :
         /\ j < k
         /\ delivered[j].s = delivered[k].s
         /\ delivered[j].i # delivered[k].i
         /\ NonePending(delivered[k].s)
         /\ Converged(delivered[k].s)

\* C15 (as claimed): a run whose configuration has d < 1 or n < m*d executes
\* no tick and returns no waste value.  (x > m is the ValueError random.sample
\* raises at line 81; the active sets of the model are the samples it returns.)
InvalidConfig == d < 1 \/ n < m * d

C15_InvalidFailsFast == InvalidConfig => (clock = 0 /\ pc # "done")

\* A TwoPointer run of a single party: nobody of the opposite direction exists.
Alone == topo = "two" /\ m = 1
AloneBlocked ==
    /\ get_closest_opponent(1) = NoOpponent
    /\ get_move_status(1) = "none"
    /\ ptr[1] = TwoStart(1)
    /\ used[1] = 0
    /\ queue = <<>>
    /\ burned = InitialBurned

\* C16 (as claimed): the single party is BLOCKED in every tick, its pointer
\* never changes, nothing is broadcast, burned keeps its initial content and
\* the run ends in a clinch at the first tick.
C16_AloneClinchAtFirstTick ==
    Alone => /\ AloneBlocked
             /\ pc = "done" => (clock = 1 /\ IsClinch)

\* C16 (amended): the single party is BLOCKED in every tick, its pointer never
\* changes, nothing is broadcast and burned keeps its initial content; the run
\* ends in a clinch at the first tick when the initial burned set is below the
\* threshold n - m*d, and otherwise ends at the threshold before any tick.
C16_AloneClinchOrThreshold ==
    Alone => /\ AloneBlocked
             /\ clock <= 1
             /\ pc = "done" =>
                  IF Cardinality(InitialBurned) < MAX_UTILIZATION
                  THEN clock = 1 /\ IsClinch
                  ELSE clock = 0

\* C16 witness: a single active party, blocked at its first tick, has ended
\* the run in a clinch.
C16_Witness ==
    /\ Alone
    /\ active = {1}
    /\ d >= 1
    /\ pc = "done"
    /\ clock = 1

\* C17 (as claimed): no send_message call raises the 'already used'
\* RuntimeError of use_pad, and no party's next pad inside its region is
\* already in used_pads.
C17_NeverCollides ==
    /\ abst # "raised"
    /\ abst \in {"ready", "retry"} =>
         \A p \in Parties :
             (next_pad[p] <= region_end[p] /\ gap_constraint_satisfied(p, next_pad[p]))
                 => next_pad[p] \notin used_pads

\* A protocol object exists.
Constructed == abst \in {"ready", "retry", "raised"}

\* C18 (as claimed): alice.region_end < bob.region_start and
\* bob.region_end < charlie.region_start in every state of a protocol object.
C18_RegionsDisjoint ==
    Constructed =>
        /\ region_end["alice"] < region_start["bob"]
        /\ region_end["bob"] < region_start["charlie"]

\* C19: the constructor raises ValueError exactly for n < 3 or d < 1 and then
\* builds no regions and no counters; otherwise the object starts with
\* Alice = [1, n div 3], Bob = [n div 3 + d + 1, 2n div 3],
\* Charlie = [2n div 3 + d + 1, n], each next_pad at its region_start, and
\* k = d when no k was given (the given k otherwise).
C19_Construction ==
    /\ abst = "rejected" =>
         /\ abn < 3 \/ abd < 1
         /\ region_start = <<>> /\ region_end = <<>> /\ next_pad = <<>>
         /\ used_pads = {} /\ total_messages = 0 /\ calls = 0
    /\ Constructed =>
         /\ abn >= 3 /\ abd >= 1
         /\ abk = (IF karg = <<>> THEN abd ELSE karg[1])
         /\ region_start["alice"] = 1
         /\ region_start["bob"] = (abn \div 3) + abd + 1
         /\ region_start["charlie"] = ((2 * abn) \div 3) + abd + 1
    /\ (abst = "ready" /\ calls = 0) =>
         /\ region_end["alice"] = abn \div 3
         /\ region_end["bob"] = (2 * abn) \div 3
         /\ region_end["charlie"] = abn
         /\ next_pad = region_start
         /\ used_pads = {} /\ total_messages = 0

\* C19 witness: one constructor call was rejected for n = 2 with a valid d, or
\* an object with n = 3 and no k given has served its first message.
C19_Witness ==
    \/ abst = "rejected" /\ abn = 2 /\ abd >= 1
    \/ abst = "ready" /\ abn = 3 /\ karg = <<>> /\ calls = 1 /\ successful_messages = 1

\* C20 (as claimed): when every send_message call made so far has returned,
\* total_messages is the number of calls made by the caller and equals
\* successful_messages + failed_messages, and len(used_pads) equals
\* successful_messages.
C20_MessageAccounting ==
    abst = "ready" =>
        /\ total_messages = calls
        /\ total_messages = successful_messages + failed_messages
        /\ Cardinality(used_pads) = successful_messages

Min(a, b) == IF a < b THEN a ELSE b

\* C21: extend_region(party, k) sets party.region_end to min(old region_end + k, n):
\* the region grows by exactly k when that stays within n and ends at n
\* otherwise; no other region_end, no region_start and no next_pad changes.
C21_ExtendRegion ==
    [][(abst # "new" /\ (extcall' # extcall \/ region_end' # region_end)) =>
         LET p == extcall'[1]
             k == extcall'[2]
         IN /\ region_end'[p] = Min(region_end[p] + k, abn)
            /\ region_end[p] + k <= abn => region_end'[p] - region_end[p] = k
            /\ region_end[p] + k > abn => region_end'[p] = abn
            /\ \A q \in Parties \ {p} : region_end'[q] = region_end[q]
            /\ region_start' = region_start
            /\ next_pad' = next_pad]_vars

\* C21 witness: Charlie's region, which ends at n, was extended by k >= 1 and
\* stayed at n, after Alice's region had grown beyond its initial end.
C21_Witness ==
    /\ abst = "ready"
    /\ extcall # <<>>
    /\ extcall[1] = "charlie"
    /\ extcall[2] >= 1
    /\ region_end["charlie"] = abn
    /\ region_end["alice"] > abn \div 3

\* C22: every Ring run with 1 <= x <= m terminates, whatever the delays and
\* the tie-breaks: it eventually leaves the loop, and it leaves it with
\* |burned| >= n - m*d or in a tick without a mover and with an empty queue.
C22_RingTerminates ==
    (topo = "ring" /\ active # {}) =>
        /\ <>(pc = "done")
        /\ [](pc = "done" => (ThresholdReached \/ IsClinch))

\* C22 witness: a Ring run with an active and a silent party has ended in a
\* clinch below the threshold, after a DATA move of an active party.
C22_Witness ==
    /\ topo = "ring"
    /\ active # {} /\ Silent # {}
    /\ pc = "done"
    /\ ~ThresholdReached
    /\ IsClinch
    /\ \E p \in active : used[p] >= 1
    /\ clock >= 2

\* The cyclic successor of p in the Ring, the true forward distance to it, and
\* the number of steps by which p's view of it is behind its true pointer.
Successor(p) == (p % m) + 1
TrueGap(p) == (ptr[Successor(p)] - ptr[p]) % n
Lag(p) == (ptr[Successor(p)] - view[p][Successor(p)]) % n
RingConservative == topo = "ring" /\ m >= 2 /\ d >= 1 /\ n >= m

\* C23: in the Ring with m >= 2, d >= 1 and n >= m, each party's view of its
\* successor is behind the successor's true pointer by the steps not yet
\* delivered and never ahead of it: the true forward distance is the view gap
\* plus that lag, hence >= the view gap and >= 1; a party that moves has a true
\* forward distance > d before the move and one less after it, so it never
\* reaches or passes its successor.
C23_ViewsConservative ==
    /\ [](RingConservative =>
            \A p \in Ids :
                /\ RingGap(p) + Lag(p) = TrueGap(p)
                /\ RingGap(p) <= TrueGap(p)
                /\ TrueGap(p) >= 1
                /\ ptr[p] # ptr[Successor(p)])
    /\ [][RingConservative =>
            \A p \in Ids : ptr'[p] # ptr[p] =>
                /\ TrueGap(p) > d
                /\ TrueGap(p)' = TrueGap(p) - 1
                /\ TrueGap(p)' >= 1]_vars

\* C23 witness: a party has just moved while its view of its successor was
\* behind the successor's true pointer, and stands at distance d from it.
C23_Witness ==
    /\ RingConservative
    /\ \E p \in Ids :
         /\ Lag(p) >= 1
         /\ TrueGap(p) = d + Lag(p)
         /\ \E msg \in Range(queue) : msg.s = p /\ msg.i = ptr[p] /\ msg.at = clock

\* network.tick(parties) called on the network of a finished run.
FurtherCap == Max(max_iterations, MaxClock) + MaxFurther
FurtherTick ==
    /\ pc = "done"
    /\ clock < FurtherCap
    /\ clock' = clock + 1
    /\ delivered' = SelectDue(queue, clock + 1)
    /\ queue' = SelectLater(queue, clock + 1)
    /\ view' = Deliver(view, SelectDue(queue, clock + 1))
    /\ UNCHANGED <<topo, n, m, d, active, ptr, used, burned, pc>>
    /\ UNCHANGED <<results, abVars>>

NextFurther == Next \/ FurtherTick

SpecFurther == Init /\ [][NextFurther]_vars

\* The loop was left by the break: neither the threshold nor the cap stopped it.
ClinchExitTaken == pc = "done" /\ ~ThresholdReached /\ ~CapReached

\* C24: from a finished run that took the clinch exit, and from any finished
\* state with nobody eligible and nothing pending, a further network tick
\* delivers nothing, changes no view, pointer or burned index and leaves every
\* active and silent party blocked, so that the state is a clinch again, for
\* any number of ticks.
C24_ClinchStable ==
    [][(ClinchExitTaken \/ (pc = "done" /\ IsClinch)) =>
         /\ delivered' = <<>>
         /\ queue' = <<>>
         /\ view' = view
         /\ ptr' = ptr
         /\ burned' = burned
         /\ used' = used
         /\ \A p \in Ids : get_move_status(p)' = "none"
         /\ IsClinch']_vars

\* C24 witness: a run in which parties moved and broadcasts were delivered has
\* ended in a clinch, and more ticks were then executed than any run executes.
C24_Witness ==
    /\ pc = "done"
    /\ IsClinch
    /\ clock > Max(max_iterations, MaxClock)
    /\ \E p \in Ids : ptr[p] # StartIndex(p)
    /\ \E p \in Ids : \E q \in DOMAIN view[p] : q # p /\ view[p][q] # StartIndex(q)

\* The parties whose pointer a step changes, and one step of p in its
\* direction of travel.
Movers == {p \in Ids : ptr'[p] # ptr[p]}
OneStep(p) ==
    IF topo = "ring" THEN (ptr[p] + 1) % n
    ELSE IF p % 2 = 1 THEN (ptr[p] + 1) % n
    ELSE (ptr[p] + n - 1) % n

\* C25: in every tick at most one party's pointer changes, and it changes by
\* exactly one step in that party's direction of travel: to (pointer + 1) mod n
\* in Ring and for odd ids in TwoPointer, to (pointer - 1) mod n for even ids in
\* TwoPointer; every pointer stays in 0..n-1.
C25_OneMoverOneStep ==
    /\ [](\A p \in Ids : ptr[p] \in 0..(n - 1))
    /\ [][/\ Cardinality(Movers) <= 1
          /\ \A p \in Movers : ptr'[p] = OneStep(p)
          /\ (pc = "loop" /\ pc' = "move") => Movers = {}]_vars

\* C25 witness: in TwoPointer a forward party stands one step after its start
\* and a backward party two steps before its own.
C25_Witness ==
    /\ topo = "two"
    /\ n >= 4
    /\ m >= 2
    /\ ptr[1] = 1
    /\ ptr[2] = n - 3

\* C26: every step that moves a party (DATA, DRIFT or silent jump) appends
\* exactly one message to the pending queue, carrying the mover's id and its
\* new pointer, scheduled now and due within d ticks; a step that moves nobody
\* schedules nothing.  A pointer thus changes only together with the broadcast
\* of its new value: the message a party scheduled last carries its pointer.
C26_OneBroadcastPerMove ==
    [][/\ \A p \in Movers :
            /\ Len(queue') = Len(queue) + 1
            /\ SubSeq(queue', 1, Len(queue)) = queue
            /\ queue'[Len(queue')].s = p
            /\ queue'[Len(queue')].i = ptr'[p]
            /\ queue'[Len(queue')].at = clock
            /\ queue'[Len(queue')].t \in clock..(clock + d)
       /\ Movers = {} =>
            /\ Len(queue') <= Len(queue)
            /\ Range(queue') \subseteq Range(queue)]_vars

\* C26 witness: after a DATA move of an active party, the broadcast of a silent
\* party's jump is pending.
C26_Witness ==
    /\ \E p \in active : used[p] >= 1
    /\ Len(queue) >= 1
    /\ queue[Len(queue)].s \in Silent
    /\ queue[Len(queue)].i = ptr[queue[Len(queue)].s]

\* C27: a network tick (the step that advances the clock) changes only the
\* clock, the pending queue and the views, never a pointer, a used count or
\* burned; every other step leaves the clock and the views alone and changes
\* at most the pointer of one mover, the pending queue and, when the mover is
\* active and its move is a DATA move, burned by exactly the mover's new index
\* and the mover's used count by exactly 1.
C27_Frame ==
    [][/\ UNCHANGED <<topo, n, m, d, active>>
       /\ clock' # clock =>
            /\ clock' = clock + 1
            /\ ptr' = ptr /\ used' = used /\ burned' = burned
       /\ clock' = clock =>
            /\ view' = view
            /\ \A p \in Ids \ Movers : used'[p] = used[p]
            /\ Movers = {} => (burned' = burned /\ queue' = queue)
            /\ \A p \in Movers :
                 \/ /\ used'[p] = used[p] /\ burned' = burned
                 \/ /\ p \in active
                    /\ used'[p] = used[p] + 1
                    /\ ptr'[p] \notin burned
                    /\ burned' = burned \cup {ptr'[p]}]_vars

\* C27 witness: a run in which a tick has changed a view, an active party has
\* burned an index beyond the initial ones and a silent party has moved.
C27_Witness ==
    /\ \E p \in Ids : \E q \in DOMAIN view[p] : q # p /\ view[p][q] # StartIndex(q)
    /\ \E p \in active : used[p] >= 1 /\ ptr[p] \in burned \ InitialBurned
    /\ \E p \in Silent : ptr[p] # StartIndex(p)

\* The value tick returns: len(delivered) > 0.
TickReturn == Len(delivered) > 0

\* The last message of sender s in a list of messages, 0 if there is none.
LastOf(msgs, s) ==
    LET ks == {k \in 1..Len(msgs) : msgs[k].s = s}
    IN IF ks = {} THEN 0 ELSE CHOOSE k \in ks : \A j \in ks : j <= k

\* C28: a scheduled broadcast stays pending until the first tick whose clock is
\* >= its delivery tick; that tick applies it and removes it, so that it is
\* never applied again; the tick returns true exactly when it delivered
\* something, and the messages of one tick are applied in scheduling order
\* (the last one of a sender decides the view of that sender).
C28_ExactlyOnce ==
    /\ []((pc = "move" => \A msg \in Range(queue) : msg.t > clock)
          /\ \A msg \in Range(queue) : msg.t >= clock)
    /\ [][clock' # clock =>
            /\ delivered' = SelectSeq(queue, LAMBDA msg : msg.t <= clock')
            /\ queue' = SelectSeq(queue, LAMBDA msg : msg.t > clock')
            /\ Range(delivered') \cap Range(queue') = {}
            /\ Len(delivered') + Len(queue') = Len(queue)
            /\ TickReturn' <=> (\E msg \in Range(queue) : msg.t <= clock')
            /\ \A p \in Ids : \A s \in DOMAIN view[p] :
                 view'[p][s] = IF p # s /\ LastOf(delivered', s) # 0
                               THEN delivered'[LastOf(delivered', s)].i
                               ELSE view[p][s]]_vars

\* C28 witness: one tick has returned true after delivering two broadcasts, the
\* first of which had waited in the queue for a tick that did not deliver it.
C28_Witness ==
    /\ pc = "move"
    /\ TickReturn
    /\ Len(delivered) >= 2
    /\ delivered[1].at < delivered[2].at
    /\ delivered[1].t = clock
    /\ delivered[1].at + 2 <= clock

\* C29: TwoPointer bounded run.  Every TwoPointer run stops; the loop never
\* runs more than 10*n ticks; a run that has stopped has reached the iteration
\* cap, the burn threshold n - m*d, or a clinch, and in each case the value
\* returned is n - |burned|, between 0 and n.
C29_TwoPointerBounded ==
    topo = "two" =>
        /\ <>(pc = "done")
        /\ [](clock <= 10 * n)
        /\ [](pc = "done" =>
                /\ CapReached \/ ThresholdReached \/ IsClinch
                /\ Waste = n - Cardinality(burned)
                /\ Waste \in 0..n)

\* C29 witness: a TwoPointer run has stopped on the burn threshold after at
\* least three ticks, short of the cap and not in a clinch, an active party
\* having used two pads or more, and returns a positive waste.
C29_Witness ==
    /\ topo = "two"
    /\ pc = "done"
    /\ ThresholdReached
    /\ ~CapReached
    /\ ~IsClinch
    /\ clock >= 3
    /\ \E p \in active : used[p] >= 2
    /\ Waste >= 1

\* A frame of send_message that borrows and retries has extended the sender's
\* region: the retry does not start from the state its caller started from.
RetryProgress(kmin) ==
    (abk >= kmin /\ abst' = "retry") => region_end'[sender'] > region_end[sender']

\* C30: send_message terminates.  For every accepted configuration, k = 0
\* included, a send_message call performs finitely many borrow-and-retry
\* steps: each such step extends the sender's region, which ends at n at most,
\* and a call that is about to retry goes on to return or raise.
C30_SendMessageTerminates ==
    /\ [][RetryProgress(0)]_vars
    /\ (abst = "retry" /\ total_messages < MaxMsgs) ~> (abst # "retry")

\* C30, restricted to k >= 1: a borrow extends the region by at least one pad
\* and is followed by a return or a raise.
C30_PositiveKTerminates ==
    /\ [][RetryProgress(1)]_vars
    /\ (abk >= 1 /\ abst = "retry" /\ total_messages < MaxMsgs) ~> (abst # "retry")

\* C31: borrowed-pad tracking.  Once the protocol is constructed, each party's
\* borrowed_pads equals the number of pads by which its region_end stands
\* beyond the region_end the constructor gave it.
C31_BorrowedPadsTracked ==
    abst \in {"ready", "retry", "raised"} =>
        \A p \in Parties :
            borrowed_pads[p] = region_end[p] - init_party(p, abn, abd).region_end

====
